---- MODULE Spec2Model ----
(***************************************************************************)
(* Model of the slicing service: POST /slice (validate, allocate, write    *)
(* input, run PrusaSlicer, estimate, persist metadata) and GET / (artifact *)
(* retrieval confined to the OS temp directory), the estimate as a pure    *)
(* function, and the handleSlice(form) variants with their cleanup.        *)
(*                                                                         *)
(* Strings are sequences of symbols.  A symbol is the character "." or a   *)
(* run of characters holding no "." and no "/"; a path is a sequence of    *)
(* segments, each segment a string.                                        *)
(***************************************************************************)
EXTENDS Integers, Sequences, FiniteSets, TLC

VARIABLES
    fs,       \* the filesystem: canonical path -> node
    pc,       \* per submission: position in the POST /slice handler
    req,      \* per submission: the request received
    job,      \* per submission: name, ext and the allocated paths
    proc,     \* per submission: the engine subprocess
    est,      \* per submission: the value of `estimates`
    resp,     \* per submission: the response returned
    hist,     \* per submission: the steps taken so far, in order
    get,      \* the GET / handler: position, inputs and locals
    gresp,    \* the response of the GET / handler
    fname,    \* extOf on bounded names: the file name drawn
    fext,     \* extOf on bounded names: the extension computed
    summary,  \* the estimate on bounded analyses: the analysis drawn
    quote,    \* the estimate on bounded analyses: the estimate computed
    hs,       \* handleSlice(form): variant, position, paths and result
    acme,     \* maybeServeAcme(u): the URL path, the file read, the result
    sl        \* sliceWithPrusaSlicer: variant, position, the engine and its pipes

vars ==
    <<fs, pc, req, job, proc, est, resp, hist, get, gresp, fname, fext, summary, quote,
      hs, acme, sl>>
svcVars == <<fs, pc, req, job, proc, est, resp, hist, get, gresp>>

\* ------------------------------------------------------------------ bounds
NumJobs == 2
MaxLen == 3
MaxLinks == 2
MaxAmount == 5

Jobs == 1..NumJobs

\* ----------------------------------------------------------------- strings
None == [none |-> TRUE]

Dot == "."

RECURSIVE SeqsUpTo(_, _)
SeqsUpTo(S, n) ==
    IF n = 0 THEN {<<>>}
    ELSE LET prev == SeqsUpTo(S, n - 1)
         IN  prev \cup {Append(s, c) : s \in prev, c \in S}

SetMax(S) == CHOOSE m \in S : \A k \in S : k <= m
SetMin(S) == CHOOSE m \in S : \A k \in S : m <= k

\* String.prototype.toLowerCase, symbol by symbol
Lower(c) ==
    CASE c = "STL"   -> "stl"
      [] c = "Model" -> "model"
      [] c = "B"     -> "b"
      [] c = "GCODE" -> "gcode"
      [] OTHER       -> c

toLowerCase(s) == [k \in 1..Len(s) |-> Lower(s[k])]

\* String.prototype.lastIndexOf: 0-based, -1 when absent
lastIndexOf(s, c) ==
    LET I == {k \in 1..Len(s) : s[k] = c}
    IN  IF I = {} THEN -1 ELSE SetMax(I) - 1

\* String.prototype.indexOf: 0-based, -1 when absent
indexOf(s, c) ==
    LET I == {k \in 1..Len(s) : s[k] = c}
    IN  IF I = {} THEN -1 ELSE SetMin(I) - 1

\* String.prototype.slice(i) for 0 <= i <= length
slice(s, i) == SubSeq(s, i + 1, Len(s))

extOfFirstDot(name) ==
    LET i == indexOf(name, Dot)
    IN  IF i >= 0 THEN toLowerCase(slice(name, i)) ELSE <<>>

\* Returns lowercase file extension (including dot) or empty string.
extOf(name) ==
    LET i == lastIndexOf(name, Dot)
    IN  IF i >= 0 THEN toLowerCase(slice(name, i)) ELSE <<>>

\* node:path extname of one segment: from the last "." on, "" when there is
\* none or when the only "." is the segment's first character
extname(seg) ==
    LET i == lastIndexOf(seg, Dot)
    IN  IF i <= 0 THEN <<>>
        ELSE IF \A k \in 1..(i + 1) : seg[k] = Dot THEN <<>>
        ELSE slice(seg, i)

GcodeExt == <<Dot, "gcode">>
JsonExt == <<Dot, "json">>

ALLOWED_EXT_AndGcode ==
    { <<Dot, "stl">>, <<Dot, "3mf">>, <<Dot, "amf">>, <<Dot, "obj">>,
      <<Dot, "step">>, <<Dot, "stp">>, <<Dot, "ste">>, GcodeExt }
ALLOWED_EXT ==
    { <<Dot, "stl">>, <<Dot, "3mf">>, <<Dot, "amf">>, <<Dot, "obj">>,
      <<Dot, "step">>, <<Dot, "stp">>, <<Dot, "ste">> }

MAX_SIZE == 104857600

\* ------------------------------------------------------------------- paths
DotDot == <<Dot, Dot>>
DotSeg == <<Dot>>

\* node:path normalize of an absolute path: "." dropped, ".." pops, never
\* above the root
RECURSIVE NormalizeFrom(_, _)
NormalizeFrom(acc, rest) ==
    IF rest = <<>> THEN acc
    ELSE LET s == Head(rest)
         IN  IF s = DotSeg \/ s = <<>> THEN NormalizeFrom(acc, Tail(rest))
             ELSE IF s = DotDot
                  THEN NormalizeFrom(IF acc = <<>> THEN acc
                                     ELSE SubSeq(acc, 1, Len(acc) - 1), Tail(rest))
                  ELSE NormalizeFrom(Append(acc, s), Tail(rest))

normalize(p) == NormalizeFrom(<<>>, p)

Slash == "/"

\* the segments of a relative path string: its pieces between the slashes
RECURSIVE SplitFrom(_, _, _)
SplitFrom(done, cur, rest) ==
    IF rest = <<>> THEN Append(done, cur)
    ELSE IF Head(rest) = Slash THEN SplitFrom(Append(done, cur), <<>>, Tail(rest))
    ELSE SplitFrom(done, Append(cur, Head(rest)), Tail(rest))

Segments(str) == SplitFrom(<<>>, <<>>, str)

\* node:path join(dir, rel) with dir absolute: concatenate, then normalize
join(dir, segs) == normalize(dir \o segs)

\* node:path resolve(dir, rel) with dir absolute and rel relative
resolve(dir, segs) == normalize(dir \o segs)

RECURSIVE CommonLen(_, _)
CommonLen(a, b) ==
    IF a = <<>> \/ b = <<>> \/ Head(a) # Head(b) THEN 0
    ELSE 1 + CommonLen(Tail(a), Tail(b))

\* node:path relative(from, to), both absolute and normalized
relative(from, to) ==
    LET n == CommonLen(from, to)
    IN  [k \in 1..(Len(from) - n) |-> DotDot] \o SubSeq(to, n + 1, Len(to))

\* rel.startsWith("..") on the path string of rel
startsWithDotDot(rel) ==
    /\ rel # <<>>
    /\ Len(rel[1]) >= 2
    /\ rel[1][1] = Dot
    /\ rel[1][2] = Dot

\* ---------------------------------------------------------------- the files
Dir == [k |-> "dir"]
File(d) == [k |-> "file", data |-> d]
Link(t) == [k |-> "link", to |-> t]

ENOENT == [err |-> "ENOENT"]
IsErr(r) == "err" \in DOMAIN r
Ok(p) == [path |-> p]

\* The kernel's path walk: `cur` is the canonical path reached so far, `rest`
\* the segments left, `fuel` the number of symbolic links it may still follow.
RECURSIVE Walk(_, _, _, _)
Walk(f, cur, rest, fuel) ==
    IF rest = <<>> THEN Ok(cur)
    ELSE LET s == Head(rest)
             nxt == Append(cur, s)
         IN  IF s = DotSeg THEN Walk(f, cur, Tail(rest), fuel)
             ELSE IF s = DotDot
                  THEN Walk(f, IF cur = <<>> THEN cur
                               ELSE SubSeq(cur, 1, Len(cur) - 1), Tail(rest), fuel)
             ELSE IF nxt \notin DOMAIN f THEN ENOENT
             ELSE IF f[nxt].k = "link"
                  THEN IF fuel = 0 THEN [err |-> "ELOOP"]
                       ELSE Walk(f, <<>>, f[nxt].to \o Tail(rest), fuel - 1)
             ELSE IF f[nxt].k = "file" /\ Tail(rest) # <<>>
                  THEN [err |-> "ENOTDIR"]
             ELSE Walk(f, nxt, Tail(rest), fuel)

\* fs.realpath: the canonical path of an existing file, or an error
realpath(f, p) == Walk(f, <<>>, p, MaxLinks)

\* fs.stat follows symbolic links: the node at the canonical path, or an error
stat(f, p) ==
    LET r == realpath(f, p)
    IN  IF IsErr(r) THEN r
        ELSE IF r.path = <<>> THEN Dir ELSE f[r.path]

\* where a write to p lands: the canonical parent plus the last segment, or
\* the link target when p names a symbolic link
WriteTarget(f, p) ==
    LET r == realpath(f, p)
    IN  IF ~IsErr(r) THEN r
        ELSE LET d == realpath(f, SubSeq(p, 1, Len(p) - 1))
             IN  IF IsErr(d) THEN d ELSE Ok(Append(d.path, p[Len(p)]))

\* Bun.write(p, data) when it succeeds: create or replace the file
WriteFile(f, p, d) ==
    LET t == WriteTarget(f, p)
    IN  IF IsErr(t) THEN f
        ELSE [q \in DOMAIN f \cup {t.path} |-> IF q = t.path THEN File(d) ELSE f[q]]

\* Bun.file(p).exists()
exists(f, p) ==
    LET s == stat(f, p) IN ~IsErr(s) /\ s.k = "file"

\* --------------------------------------------------------------- constants
\* os.tmpdir(), a symbolic link to the canonical scratch root
TmpDir == << <<"tmp">> >>
RealTmp == << <<"private">>, <<"tmp">> >>
Etc == << <<"etc">> >>

Seg(b, e) == <<b>> \o e

Bytes(b) == [bytes |-> b]

Secret == Bytes("SECRET")

\* The files present when the service starts: the scratch root, a directory
\* outside it holding files the service must not serve, and inside the root
\* two symbolic links that point outside, two directories and two old files.
InitFs ==
    (  << <<"private">> >> :> Dir
    @@ RealTmp :> Dir
    @@ TmpDir :> Link(RealTmp)
    @@ Etc :> Dir
    @@ Append(Etc, Seg("passwd", JsonExt)) :> File(Secret)
    @@ Append(Etc, Seg("passwd", GcodeExt)) :> File(Secret)
    @@ Append(RealTmp, Seg("evil", JsonExt)) :> Link(Append(Etc, Seg("passwd", JsonExt)))
    @@ Append(RealTmp, Seg("evil", GcodeExt)) :> Link(Append(Etc, Seg("passwd", GcodeExt)))
    @@ Append(RealTmp, Seg("d", JsonExt)) :> Dir
    @@ Append(RealTmp, Seg("d", GcodeExt)) :> Dir
    @@ Append(RealTmp, Seg("old", JsonExt)) :> File(Bytes("OLDMETA"))
    @@ Append(RealTmp, Seg("old", GcodeExt)) :> File(Bytes("OLDGCODE")) )

\* ------------------------------------------------------------ POST /slice
FileNames ==
    { <<"Model", Dot, "STL">>, <<"noext">>, <<>>, <<"a", Dot, "gcode">> }

Sizes == {0, MAX_SIZE, MAX_SIZE + 1}

Requests ==
    { [multipart |-> FALSE, file |-> None], [multipart |-> TRUE, file |-> None] }
    \cup { [multipart |-> TRUE, file |-> [name |-> n, size |-> z]] :
               n \in FileNames, z \in Sizes }

\* randomBase("job"): a time stamp and eight random digits; nothing keeps two
\* calls from returning the same value
Bases == {"job-1", "job-2"}

\* crypto.randomUUID(): a fresh value on every call
UuidOf == <<"uuid-1", "uuid-2", "uuid-3", "uuid-4">>

\* the bytes of the file each submission uploads, and the G-code the engine
\* makes of them
UploadOf == <<"MODEL-1", "MODEL-2", "MODEL-3", "MODEL-4">>
GcodeOf == <<"G1 X1", "G1 X2", "G1 X3", "G1 X4">>

Response(status, body) == [status |-> status, body |-> body]

Text(t) == [text |-> t]

NoJob == None

Pipeline ==
    << "validated", "allocated", "inputWritten", "engineStarted", "engineExited",
       "estimateStarted", "estimateReturned", "metaWritten" >>

Log(j, events) == hist' = [hist EXCEPT ![j] = @ \o events]

RespondAndGoOn(j, r) ==
    /\ resp' = [resp EXCEPT ![j] = r]
    /\ pc' = pc
\* return new Response(...): the response is sent and the handler is over
Respond(j, r) ==
    /\ resp' = [resp EXCEPT ![j] = r]
    /\ pc' = [pc EXCEPT ![j] = "done"]

TooBigNever(size) == FALSE
\* part_000:141  file.size > 100 * 1024 * 1024
TooBig(size) == size > MAX_SIZE

ExtAllowedAny(ext) == ext # <<>>
\* part_000:142  ALLOWED_EXT.has(ext)
ExtAllowed(ext) == ext \in ALLOWED_EXT

\* The validation of POST /slice: the response that rejects the request, or
\* None when it passes
Validate(r) ==
    IF ~r.multipart THEN Response(415, Text(<<"use multipart/form-data">>))
    ELSE IF r.file = None THEN Response(400, Text(<<"no file">>))
    ELSE LET name == IF r.file.name = <<>> THEN <<"model">> ELSE r.file.name
             ext == extOf(name)
         IN  IF TooBig(r.file.size)
             THEN Response(413, Text(<<"request too big">>))
             ELSE IF ~ExtAllowed(ext)
             THEN Response(400, Text(<<"unsupported extension: ">> \o ext))
             ELSE None

AllocateByClientName(j, r, base) ==
    LET name == IF r.file.name = <<>> THEN <<"model">> ELSE r.file.name
        ext == extOf(name)
    IN  [ name |-> name, ext |-> ext, size |-> r.file.size,
          base |-> base, uploadId |-> UuidOf[j],
          uploadMetaPath |-> join(TmpDir, Segments(Seg(UuidOf[j], JsonExt))),
          inPath |-> join(TmpDir, Segments(name)),
          outPath |-> join(TmpDir, Segments(Seg(base, GcodeExt))) ]
\* The paths of one submission: each file name is a template string, which
\* path.join takes apart at its slashes
Allocate(j, r, base) ==
    LET name == IF r.file.name = <<>> THEN <<"model">> ELSE r.file.name
        ext == extOf(name)
    IN  [ name |-> name, ext |-> ext, size |-> r.file.size,
          base |-> base, uploadId |-> UuidOf[j],
          uploadMetaPath |-> join(TmpDir, Segments(Seg(UuidOf[j], JsonExt))),
          inPath |-> join(TmpDir, Segments(Seg(base, ext))),
          outPath |-> join(TmpDir, Segments(Seg(base, GcodeExt))) ]

\* POST /slice up to the path allocation
Accept(j, r, base) ==
    /\ req' = [req EXCEPT ![j] = r]
    /\ LET v == Validate(r)
       IN  IF v # None
           THEN /\ Respond(j, v)
                /\ Log(j, <<"rejected">>)
                /\ UNCHANGED job
           ELSE /\ job' = [job EXCEPT ![j] = Allocate(j, r, base)]
                /\ pc' = [pc EXCEPT ![j] = "write"]
                /\ Log(j, <<"validated", "allocated">>)
                /\ UNCHANGED resp
    /\ UNCHANGED <<fs, proc, est, get, gresp, fname, fext, summary, quote, hs, acme, sl>>

Submit(j) ==
    /\ pc[j] = "idle"
    /\ \E r \in Requests, base \in Bases : Accept(j, r, base)

\* POST /slice up to the path allocation, for the upload named fname
SubmitNamed(j) ==
    /\ pc[j] = "idle"
    /\ \E base \in Bases :
          Accept(j, [multipart |-> TRUE, file |-> [name |-> fname, size |-> 1]], base)

\* await Bun.write(inPath, file), then Bun.file(inPath).exists().  Bun.write
\* resolves to the number of bytes written: 0 for an empty upload.
WriteInput(j) ==
    /\ pc[j] = "write"
    /\ \E throws \in BOOLEAN :
          IF throws
          THEN /\ Respond(j, Response(500, Text(<<"error writing input file: ", "EIO">>)))
               /\ Log(j, <<"inputWriteFailed">>)
               /\ UNCHANGED fs
          ELSE LET f2 == WriteFile(fs, job[j].inPath, Bytes(UploadOf[j]))
                   ok == job[j].size
               IN  /\ fs' = f2
                   /\ IF ok = 0
                      THEN /\ Respond(j, Response(400, Text(<<"failed to write input file">>)))
                           /\ Log(j, <<"inputWriteFailed">>)
                      ELSE IF ~exists(f2, job[j].inPath)
                      THEN /\ Respond(j, Response(500,
                                  Text(<<"input file does not exist after writing">>)))
                           /\ Log(j, <<"inputWriteFailed">>)
                      ELSE /\ pc' = [pc EXCEPT ![j] = "spawn"]
                           /\ Log(j, <<"inputWritten">>)
                           /\ UNCHANGED resp
    /\ UNCHANGED <<req, job, proc, est, get, gresp, fname, fext, summary, quote, hs, acme, sl>>

\* What the engine may do: its exit code, its stderr and stdout, and the file
\* it leaves at the output path (None: no file)
EngineOutcomes(j) ==
    { [code |-> 0, stderr |-> "", stdout |-> "done", out |-> Bytes(GcodeOf[j])],
      [code |-> 0, stderr |-> "", stdout |-> "done", out |-> None],
      [code |-> 1, stderr |-> "boom", stdout |-> "", out |-> None] }

Throw(m) == [throw |-> m]
Return(v) == [value |-> v]
Throws(r) == "throw" \in DOMAIN r

SliceErrorNoStderr(code, stderr) ==
    <<"PrusaSlicer failed (code ", ToString(code), ")">>
\* new Error(`PrusaSlicer failed (code ${code}): ${stderr}`).message
SliceError(code, stderr) ==
    <<"PrusaSlicer failed (code ", ToString(code), "): ", stderr>>

\* sliceWithPrusaSlicer once the process has exited and both pipes are read
SliceOutcome(code, stderr, stdout) ==
    IF code # 0 THEN Throw(SliceError(code, stderr)) ELSE Return(stdout)

SpawnReadyOrFailed(j) ==
    \/ pc[j] = "spawn"
    \/ pc[j] = "done" /\ proc[j] # None /\ proc[j].state = "exited" /\ proc[j].code # 0
\* part_000:162-163: sliceWithPrusaSlicer is called once, straight after the
\* input write, in no loop; the catch of part_000:217 only responds
SpawnReady(j) == pc[j] = "spawn"

\* Bun.spawn(args, {stderr: "pipe", stdout: "pipe"})
SpawnEngine(j) ==
    /\ SpawnReady(j)
    /\ proc' = [proc EXCEPT ![j] = [state |-> "running"]]
    /\ pc' = [pc EXCEPT ![j] = "running"]
    /\ Log(j, <<"engineStarted">>)
    /\ UNCHANGED <<fs, req, job, est, resp, get, gresp, fname, fext, summary, quote, hs, acme, sl>>

\* The engine exits; Promise.all resolves and sliceWithPrusaSlicer returns
\* or throws into the handler's outer catch
EngineExit(j) ==
    /\ pc[j] = "running"
    /\ proc[j] # None
    /\ proc[j].state = "running"
    /\ \E o \in EngineOutcomes(j) :
          LET r == SliceOutcome(o.code, o.stderr, o.stdout)
          IN  /\ proc' = [proc EXCEPT ![j] =
                     [state |-> "exited", code |-> o.code, stderr |-> o.stderr,
                      stdout |-> o.stdout, out |-> o.out]]
              /\ fs' = IF o.out = None THEN fs ELSE WriteFile(fs, job[j].outPath, o.out)
              /\ IF Throws(r)
                 THEN /\ Respond(j, Response(500, Text(<<"slicing error: ">> \o r.throw)))
                      /\ Log(j, <<"engineExited", "sliceFailed">>)
                 ELSE /\ pc' = [pc EXCEPT ![j] = "estimate"]
                      /\ Log(j, <<"engineExited">>)
                      /\ UNCHANGED resp
    /\ UNCHANGED <<req, job, est, get, gresp, fname, fext, summary, quote, hs, acme, sl>>

\* ---------------------------------------------------------------- estimate
Null == [null |-> TRUE]
Num(n) == [num |-> n]

CoalesceNegative(x, d) == IF x = Null THEN Num(0 - 200) ELSE x
\* x ?? d
Coalesce(x, d) == IF x = Null THEN d ELSE x

\* Amounts are held in hundredths: 1.00 is 100 and 0.01 is 1.
BASE_PRICE == 100
PRICE_PER_FILAMENT_UNIT == 1
BASE_TIME == 100
TIME_PER_LAYER == 1

\* What analyzeModel(new GCodeReader().loadFile(text)) may give: no analysis,
\* an analysis with both figures, an analysis with neither
Analyses ==
    { Null,
      [totalFilament |-> Num(100), layerCnt |-> Num(50)],
      [totalFilament |-> Null, layerCnt |-> Null] }

PriceAndTimeNoNullCheck(analysis) ==
    LET quickAnalysis ==
            IF analysis # Null
            THEN [ totalFilament |-> Coalesce(analysis.totalFilament, Null),
                   layerCnt |-> Coalesce(analysis.layerCnt, Null) ]
            ELSE Null
        filamentAmount ==
            IF quickAnalysis = Null THEN 0
            ELSE Coalesce(quickAnalysis.totalFilament, Num(0)).num
        layerAmount ==
            IF quickAnalysis = Null THEN 0
            ELSE Coalesce(quickAnalysis.layerCnt, Num(0)).num
    IN  [ priceEstimate |->
              [ intValue |-> BASE_PRICE + filamentAmount * PRICE_PER_FILAMENT_UNIT,
                currency |-> "EUR" ],
          timeEstimate |-> BASE_TIME + layerAmount * TIME_PER_LAYER,
          quickAnalysis |-> quickAnalysis ]
\* getPriceAndTimeEstimate from the analysis on
PriceAndTime(analysis) ==
    LET quickAnalysis ==
            IF analysis # Null
            THEN [ totalFilament |-> Coalesce(analysis.totalFilament, Null),
                   layerCnt |-> Coalesce(analysis.layerCnt, Null) ]
            ELSE Null
        filamentAmount ==
            IF quickAnalysis = Null THEN 0
            ELSE Coalesce(quickAnalysis.totalFilament, Num(0)).num
        variablePrice == filamentAmount * PRICE_PER_FILAMENT_UNIT
        finalPrice == IF quickAnalysis # Null THEN BASE_PRICE + variablePrice ELSE 0
        layerAmount ==
            IF quickAnalysis = Null THEN 0
            ELSE Coalesce(quickAnalysis.layerCnt, Num(0)).num
        variableTime == layerAmount * TIME_PER_LAYER
        finalTime == IF quickAnalysis # Null THEN BASE_TIME + variableTime ELSE 0
    IN  [ priceEstimate |-> [intValue |-> finalPrice, currency |-> "EUR"],
          timeEstimate |-> finalTime,
          quickAnalysis |-> quickAnalysis ]

\* await readFile(gCodePath, "utf8"): the text, or a thrown error
readFile(f, p) ==
    LET s == stat(f, p)
    IN  IF IsErr(s) THEN Throw(s.err)
        ELSE IF s.k # "file" THEN Throw("EISDIR")
        ELSE Return(s.data)

\* getPriceAndTimeEstimate(gCodePath): `parse` is what the G-code library does
\* with the text, an analysis returned or an error thrown
getPriceAndTimeEstimate(f, gCodePath, parse) ==
    LET text == readFile(f, gCodePath)
    IN  IF Throws(text) THEN text
        ELSE IF Throws(parse) THEN parse
        ELSE Return(PriceAndTime(parse.value))

ParseOutcomes == {Return(a) : a \in Analyses} \cup {Throw("parse error")}

EstimateReadyNoAwait(j) == pc[j] \in {"running", "estimate"}
\* part_000:163-167: the estimate is called once `await sliceWithPrusaSlicer`
\* has returned
EstimateReady(j) == pc[j] = "estimate"

\* estimates = await getPriceAndTimeEstimate(outPath), inside its own try
Estimate(j) ==
    /\ EstimateReady(j)
    /\ \E parse \in ParseOutcomes :
          LET r == getPriceAndTimeEstimate(fs, job[j].outPath, parse)
          IN  IF Throws(r)
              THEN /\ Respond(j, Response(500,
                          Text(<<"error getting price estimate: ", r.throw>>)))
                   /\ Log(j, <<"estimateStarted", "estimateFailed">>)
                   /\ UNCHANGED est
              ELSE /\ est' = [est EXCEPT ![j] = r.value]
                   /\ pc' = [pc EXCEPT ![j] = "persist"]
                   /\ Log(j, <<"estimateStarted", "estimateReturned">>)
                   /\ UNCHANGED resp
    /\ UNCHANGED <<fs, req, job, proc, get, gresp, fname, fext, summary, quote, hs, acme, sl>>

\* ----------------------------------------------------------------- persist
ClientResponse(j) ==
    [ uploadId |-> job[j].uploadId,
      previewUrl |-> Null,
      priceEstimate |-> est[j].priceEstimate,
      timeEstimate |-> est[j].timeEstimate ]

Meta(j) ==
    [ requestMeta |-> [ name |-> job[j].name, ext |-> job[j].ext,
                        size |-> job[j].size, uploadId |-> job[j].uploadId ],
      createdAt |-> "Date.now()",
      originalFilePath |-> job[j].inPath,
      gCodePath |-> job[j].outPath,
      clientResponse |-> ClientResponse(j),
      sliceResult |-> [ inPath |-> job[j].inPath, outPath |-> job[j].outPath,
                        stdout |-> proc[j].stdout ],
      estimates |-> est[j] ]

\* JSON.stringify(meta)
Json(v) == [json |-> v]

\* part_000:201 probes inPath after writing the metadata record
PostWriteProbe(j) == job[j].inPath

\* What `await Bun.write(path, data)` may do: write the data and resolve to the
\* number of bytes, resolve to 0 (the falsy result the handler tests with
\* `!ok`), or throw
WriteResults == {"written", "nothing", "throws"}

\* Bun.write(uploadMetaPath, JSON.stringify(meta)) opens the file at its final
\* path, creating it empty or truncating it, and writes the text afterwards;
\* other requests are served while the write is awaited.  This is the open,
\* or the write failing.
PersistOpen(j) ==
    /\ pc[j] = "persist"
    /\ \E w \in WriteResults :
          IF w = "throws"
          THEN /\ Respond(j, Response(500, Text(<<"error writing database entry: ", "EIO">>)))
               /\ Log(j, <<"metaWriteFailed">>)
               /\ UNCHANGED fs
          ELSE IF w = "nothing"
          THEN /\ Respond(j, Response(400, Text(<<"failed to write to database">>)))
               /\ Log(j, <<"metaWriteFailed">>)
               /\ UNCHANGED fs
          ELSE /\ fs' = WriteFile(fs, job[j].uploadMetaPath, Bytes(""))
               /\ pc' = [pc EXCEPT ![j] = "persisting"]
               /\ UNCHANGED <<resp, hist>>
    /\ UNCHANGED <<req, job, proc, est, get, gresp, fname, fext, summary, quote, hs, acme, sl>>

\* the text is written and Bun.write resolves; then the probe and the response
Persist(j) ==
    /\ pc[j] = "persisting"
    /\ LET f2 == WriteFile(fs, job[j].uploadMetaPath, Json(Meta(j)))
       IN  /\ fs' = f2
           /\ IF ~exists(f2, PostWriteProbe(j))
              THEN /\ Respond(j, Response(500,
                          Text(<<"database entry does not exist after writing">>)))
                   /\ Log(j, <<"metaWritten">>)
              ELSE /\ Respond(j, Response(200, Json(ClientResponse(j))))
                   /\ Log(j, <<"metaWritten">>)
    /\ UNCHANGED <<req, job, proc, est, get, gresp, fname, fext, summary, quote, hs, acme, sl>>

\* -------------------------------------------------------------------- GET /
\* A query parameter: absent, or a string given as the segments between its
\* "/" and whether it begins with "/"
Absent == None
Param(abs, segs) == [abs |-> abs, segs |-> segs]

IdInputs ==
    { Absent,
      Param(FALSE, << <<UuidOf[1]>> >>),
      Param(FALSE, << DotDot, <<"etc">>, <<"passwd">> >>),
      Param(FALSE, << <<"evil">> >>),
      Param(FALSE, << <<"d">> >>),
      Param(FALSE, << <<"old">> >>) }

PathInputs ==
    { Absent,
      Param(FALSE, << Seg("job-1", GcodeExt) >>),
      Param(FALSE, << DotDot, DotDot, <<"etc">>, Seg("passwd", GcodeExt) >>),
      Param(TRUE, << <<"etc">>, Seg("passwd", GcodeExt) >>),
      Param(FALSE, << Seg("evil", GcodeExt) >>),
      Param(FALSE, << Seg("d", GcodeExt) >>),
      Param(FALSE, << Seg("old", GcodeExt) >>),
      Param(FALSE, << Seg(UuidOf[1], JsonExt) >>) }

\* !param: null or the empty string
Falsy(p) == p = Absent \/ (~p.abs /\ p.segs = <<>>)

\* `${uploadId}.json` as path segments
WithJson(p) ==
    IF p.segs = <<>> THEN <<JsonExt>>
    ELSE [p.segs EXCEPT ![Len(p.segs)] = @ \o JsonExt]

NotFound == Response(404, Text(<<"not found">>))

GetIdle == [pc |-> "idle"]

\* the submissions already answered with 200 when a GET request arrives
Answered == {j \in Jobs : resp[j] # None /\ resp[j].status = 200}

\* the bytes the request just answered returned, when it was a retrieval by
\* the same handler of the same identifier that was answered with 200
Previous(variant, p) ==
    IF /\ get.pc = "done"
       /\ gresp.status = 200
       /\ get.variant = variant
       /\ get.input = p
    THEN gresp.body
    ELSE None

Reply(r) ==
    /\ gresp' = r
    /\ get' = [ pc |-> "done", variant |-> get.variant, input |-> get.input,
                after |-> get.after, prev |-> get.prev ]

\* part_000:94-98: the path the id handler looks at
IdCandidate(p, baseTmp) == join(TmpDir, WithJson(p))

\* part_000:268: the path the path handler looks at
PathCandidate(p, baseTmp) == IF p.abs THEN p.segs ELSE resolve(baseTmp, p.segs)

\* GET /?id= up to `await realpath(tmpdir())`
GetById ==
    /\ get.pc \in {"idle", "done"}
    /\ \E p \in IdInputs :
          IF Falsy(p)
          THEN /\ gresp' = Response(400, Text(<<"missing id param">>))
               /\ get' = [ pc |-> "done", variant |-> "id", input |-> p,
                          after |-> Answered ]
          ELSE LET baseTmp == realpath(fs, TmpDir).path
               IN  /\ get' = [ pc |-> "stat", variant |-> "id", input |-> p,
                               after |-> Answered, prev |-> Previous("id", p),
                               baseTmp |-> baseTmp,
                               candidate |-> IdCandidate(p, baseTmp) ]
                   /\ gresp' = None
    /\ UNCHANGED <<fs, pc, req, job, proc, est, resp, hist, fname, fext, summary, quote, hs, acme, sl>>

\* GET /?path= up to `await realpath(tmpdir())`
GetByPath ==
    /\ get.pc \in {"idle", "done"}
    /\ \E p \in PathInputs :
          IF Falsy(p)
          THEN /\ gresp' = Response(400, Text(<<"missing ?path">>))
               /\ get' = [ pc |-> "done", variant |-> "path", input |-> p,
                          after |-> Answered ]
          ELSE IF toLowerCase(extname(p.segs[Len(p.segs)])) # GcodeExt
          THEN /\ gresp' = Response(400, Text(<<"invalid extension">>))
               /\ get' = [ pc |-> "done", variant |-> "path", input |-> p,
                          after |-> Answered ]
          ELSE LET baseTmp == realpath(fs, TmpDir).path
               IN  /\ get' = [ pc |-> "stat", variant |-> "path", input |-> p,
                               after |-> Answered, prev |-> Previous("path", p),
                               baseTmp |-> baseTmp,
                               candidate |-> PathCandidate(p, baseTmp) ]
                   /\ gresp' = None
    /\ UNCHANGED <<fs, pc, req, job, proc, est, resp, hist, fname, fext, summary, quote, hs, acme, sl>>

\* const s = await stat(candidate); if (!s.isFile()) ...
GetStat ==
    /\ get.pc = "stat"
    /\ LET s == stat(fs, get.candidate)
       IN  IF IsErr(s) THEN Reply(NotFound)
           ELSE IF s.k # "file"
           THEN Reply(IF get.variant = "id" THEN NotFound
                      ELSE Response(400, Text(<<"not a file">>)))
           ELSE /\ get' = [get EXCEPT !.pc = "realpath"]
                /\ UNCHANGED gresp
    /\ UNCHANGED <<fs, pc, req, job, proc, est, resp, hist, fname, fext, summary, quote, hs, acme, sl>>

ContainedUncanonical(baseTmp, candidate, real) ==
    LET rel == relative(baseTmp, candidate) IN ~startsWithDotDot(rel)
\* rel = relative(baseTmp, real); !(rel.startsWith("..") || isAbsolute(rel));
\* a POSIX relative() never returns an absolute path
Contained(baseTmp, candidate, real) ==
    LET rel == relative(baseTmp, real) IN ~startsWithDotDot(rel)

\* real = await realpath(candidate), then the containment check
GetRealpath ==
    /\ get.pc = "realpath"
    /\ LET r == realpath(fs, get.candidate)
       IN  IF IsErr(r) THEN Reply(NotFound)
           ELSE IF ~Contained(get.baseTmp, get.candidate, r.path)
           THEN Reply(IF get.variant = "id" THEN NotFound
                      ELSE Response(403, Text(<<"forbidden path">>)))
           ELSE /\ get' = [real |-> r.path] @@ [get EXCEPT !.pc = "read"]
                /\ UNCHANGED gresp
    /\ UNCHANGED <<fs, pc, req, job, proc, est, resp, hist, fname, fext, summary, quote, hs, acme, sl>>

\* const data = await readFile(real); the 200 response.  `from` records the
\* canonical path of the file whose bytes were read.
GetRead ==
    /\ get.pc = "read"
    /\ LET data == readFile(fs, get.real)
       IN  IF Throws(data)
           THEN Reply(Response(500, Text(<<"Internal Server Error">>)))
           ELSE Reply([status |-> 200, body |-> data.value,
                       from |-> realpath(fs, get.real).path])
    /\ UNCHANGED <<fs, pc, req, job, proc, est, resp, hist, fname, fext, summary, quote, hs, acme, sl>>

\* Another process of the machine, which may write to the scratch root
\* (os.tmpdir()), renames a symbolic link to a file outside the root over a
\* file of the root.  The handler's awaits (stat, realpath, readFile) are the
\* points where this can happen during a request.
Replace ==
    /\ \E p \in DOMAIN fs :
          /\ Len(p) = Len(RealTmp) + 1
          /\ SubSeq(p, 1, Len(RealTmp)) = RealTmp
          /\ fs[p].k = "file"
          /\ fs' = [fs EXCEPT ![p] = Link(Append(Etc, Seg("passwd", JsonExt)))]
    /\ UNCHANGED <<pc, req, job, proc, est, resp, hist, get, gresp,
                   fname, fext, summary, quote, hs, acme, sl>>

\* ------------------------------------------------------- maybeServeAcme(u)
AcmeIdle == [pc |-> "idle"]

\* process.env.ACME_DIR || "/var/www/acme"
ACME_DIR == << <<"var">>, <<"www">>, <<"acme">> >>

WellKnown == <<Dot, "well-known">>
AcmeChallenge == <<"acme-challenge">>

\* String.prototype.includes
includes(s, sub) ==
    \E i \in 0..(Len(s) - Len(sub)) : SubSeq(s, i + 1, i + Len(sub)) = sub

\* u.pathname is modelled by the pieces of u.pathname.split("/") after the
\* leading empty one: "/" is << <<>> >>, "/a/" is << <<"a">>, <<>> >>.
\* u.pathname.startsWith("/.well-known/acme-challenge/")
IsAcmePath(pathname) ==
    /\ Len(pathname) >= 3
    /\ pathname[1] = WellKnown
    /\ pathname[2] = AcmeChallenge

\* u.pathname.split("/").pop()
TokenOf(pathname) == pathname[Len(pathname)]

BadTokenOnlyWhenEmpty(token) == token = <<>>

\* !token || token.includes("..")
BadToken(token) == token = <<>> \/ includes(token, DotDot)

\* maybeServeAcme(u): the result (Null when the request is left to the app
\* routes) and the path handed to Bun.file, if any
maybeServeAcme(f, pathname) ==
    IF ~IsAcmePath(pathname) THEN [result |-> Null, read |-> None]
    ELSE LET token == TokenOf(pathname)
         IN  IF BadToken(token)
             THEN [result |-> Response(400, Text("bad token")), read |-> None]
             ELSE LET file == Append(ACME_DIR, token)
                      body == readFile(f, file)
                  IN  [result |-> IF Throws(body)
                                  THEN Response(404, Text("not found"))
                                  ELSE Response(200, Text(body.value.bytes)),
                       read |-> Ok(file)]

\* The segments a request path is made of: the two of the ACME prefix, the
\* empty one (a trailing or doubled slash), names of files that exist or do
\* not exist in ACME_DIR, and names that contain "..".  new URL() has already
\* removed the segments "." and "..", so no segment is one of them.
AcmeSegs ==
    { <<>>, WellKnown, AcmeChallenge, <<"tok">>, <<"nope">>, <<"dir">>,
      <<"a", Dot, Dot, "b">>, <<Dot, Dot, "%2F", "etc">> }

AcmePathnames == SeqsUpTo(AcmeSegs, MaxLen + 1) \ {<<>>}

\* ACME_DIR as the ACME client leaves it: a challenge file, a directory, and
\* a file whose name contains ".."
AcmeFs ==
    (  << <<"var">> >> :> Dir
    @@ << <<"var">>, <<"www">> >> :> Dir
    @@ ACME_DIR :> Dir
    @@ Append(ACME_DIR, <<"tok">>) :> File(Bytes("KEYAUTH"))
    @@ Append(ACME_DIR, <<"dir">>) :> Dir
    @@ Append(ACME_DIR, <<"a", Dot, Dot, "b">>) :> File(Bytes("DOTTED")) )

MaybeServeAcme ==
    /\ acme.pc = "idle"
    /\ \E pathname \in AcmePathnames :
          LET r == maybeServeAcme(fs, pathname)
          IN  acme' = [pc |-> "done", pathname |-> pathname,
                       result |-> r.result, read |-> r.read]
    /\ UNCHANGED <<svcVars, fname, fext, summary, quote, hs, sl>>

\* ------------------------------------------------- sliceWithPrusaSlicer
SlIdle == [pc |-> "idle"]

\* the most an engine writes to one stream, and what a pipe holds before a
\* write to it blocks (64 KiB on Linux), in the same unit
MaxOutput == 3
PipeCapacity == 2

Streams == {"stdout", "stderr"}

SliceVariants == {"part_000", "utils.ts", "part_001", "part_004", "part_005"}

\* The streams Bun.spawn opens as pipes.  part_001 passes {stderr: "pipe"}
\* only and reads proc.stdout afterwards: Bun's default for stdout is "pipe".
Piped(variant) == Streams

\* The streams whose text() is awaited together with proc.exited
Awaited(variant) ==
    IF variant = "part_000" THEN {"stdout", "stderr"} ELSE {"stderr"}

\* Bun.spawn(args, {stderr: "pipe", stdout: "pipe"}) and the start of the
\* await.  The engine has `left` units to write to each stream.  Bun.spawn is
\* not among the sources: whether the runtime empties a pipe that the program
\* does not read (eager) is left open.
SliceSpawn ==
    /\ sl.pc = "idle"
    /\ \E v \in SliceVariants, o \in 0..MaxOutput, e \in 0..MaxOutput,
          c \in {0, 1}, eager \in BOOLEAN :
          sl' = [pc |-> "waiting", variant |-> v, eager |-> eager,
                 engine |-> "running", code |-> c,
                 left |-> [stdout |-> o, stderr |-> e],
                 pipe |-> [stdout |-> 0, stderr |-> 0],
                 text |-> [stdout |-> 0, stderr |-> 0]]
    /\ UNCHANGED <<svcVars, fname, fext, summary, quote, hs, acme>>

\* the engine writes one unit to a pipe that has room; a write to a full
\* pipe blocks
EngineWrites ==
    /\ sl.pc # "idle"
    /\ sl.engine = "running"
    /\ \E st \in Streams :
          /\ sl.left[st] > 0
          /\ sl.pipe[st] < PipeCapacity
          /\ sl' = [sl EXCEPT !.left[st] = @ - 1, !.pipe[st] = @ + 1]
    /\ UNCHANGED <<svcVars, fname, fext, summary, quote, hs, acme>>

\* the streams being read at this point of the function
Reading ==
    IF sl.pc = "waiting"
    THEN IF sl.eager THEN Piped(sl.variant) ELSE Awaited(sl.variant)
    ELSE IF sl.pc = "after" THEN {"stdout"}
    ELSE {}

\* proc.stderr.text() / proc.stdout.text() take what is in the pipe
Drain ==
    /\ \E st \in Reading :
          /\ sl.pipe[st] > 0
          /\ sl' = [sl EXCEPT !.text[st] = @ + sl.pipe[st], !.pipe[st] = 0]
    /\ UNCHANGED <<svcVars, fname, fext, summary, quote, hs, acme>>

\* the engine has written everything and exits
EngineDone ==
    /\ sl.pc = "waiting"
    /\ sl.engine = "running"
    /\ \A st \in Streams : sl.left[st] = 0
    /\ sl' = [sl EXCEPT !.engine = "exited"]
    /\ UNCHANGED <<svcVars, fname, fext, summary, quote, hs, acme>>

\* code !== 0; part_004 takes {success, code} out of the number proc.exited
\* resolves to, both undefined, so its `!success || code !== 0` always holds
SliceFailed(variant, code) == variant = "part_004" \/ code # 0

\* Promise.all resolves: the engine has exited and every awaited text() has
\* reached the end of its stream.  Then the throw on a failed run, or the
\* return; part_001 first awaits proc.stdout.text().
SliceSettle ==
    /\ sl.pc = "waiting"
    /\ sl.engine = "exited"
    /\ \A st \in Awaited(sl.variant) : sl.pipe[st] = 0
    /\ sl' = [sl EXCEPT !.pc = IF SliceFailed(sl.variant, sl.code) THEN "threw"
                                ELSE IF sl.variant = "part_001" THEN "after"
                                ELSE "returned"]
    /\ UNCHANGED <<svcVars, fname, fext, summary, quote, hs, acme>>

\* part_001: return await proc.stdout.text()
SliceReadAfter ==
    /\ sl.pc = "after"
    /\ sl.pipe["stdout"] = 0
    /\ sl' = [sl EXCEPT !.pc = "returned"]
    /\ UNCHANGED <<svcVars, fname, fext, summary, quote, hs, acme>>

\* ------------------------------------------------------- handleSlice(form)
HsIdle == [pc |-> "idle"]

\* The four handleSlice(form) of the sources, named by their file
HsVariants == {"utils.ts", "part_001", "part_004", "part_005"}

\* the variants whose comment says "Cleans up temp files regardless of success"
HsDocumented == {"utils.ts", "part_001", "part_005"}

\* the variants with a `finally` that unlinks inPath and outPath
HsFinally == {"part_004", "part_005"}

HS_ALLOWED_EXT == { <<Dot, "stl">>, <<Dot, "3mf">>, <<Dot, "amf">>, <<Dot, "obj">> }

\* WORKDIR, made by mkdir(WORKDIR, {recursive: true}) when the module loads
WorkDir == << <<"workdir">> >>

\* part_001 allocates in os.tmpdir(), the others in WORKDIR
HsDir(v) == IF v = "part_001" THEN TmpDir ELSE WorkDir

\* form.get("file"): no File, or a File of this name
HsFiles == { None, [name |-> <<"Model", Dot, "STL">>], [name |-> <<"noext">>],
             [name |-> <<>>], [name |-> <<"b", Dot, "obj">>],
             [name |-> <<"c", Dot, "3mf">>] }

\* Bun.file(p).unlink() inside `try { } catch {}`: the entry p is removed
\* when it is there and is no directory, otherwise nothing happens
Unlink(f, p) ==
    LET d == realpath(f, SubSeq(p, 1, Len(p) - 1))
    IN  IF IsErr(d) THEN f
        ELSE LET q == Append(d.path, p[Len(p)])
             IN  IF q \in DOMAIN f /\ f[q].k # "dir"
                 THEN [x \in DOMAIN f \ {q} |-> f[x]]
                 ELSE f

\* what is on disk when handleSlice returns
HsAtReturn(v, f, inPath, outPath) ==
    IF v \in HsFinally THEN Unlink(Unlink(f, inPath), outPath) ELSE f

HsReturn(v, result, alloc) ==
    hs' = [pc |-> "returned", variant |-> v, result |-> result, alloc |-> alloc]

\* handleSlice up to the path allocation
HandleSliceStart ==
    /\ hs.pc = "idle"
    /\ \E v \in HsVariants, file \in HsFiles, base \in Bases :
          IF file = None
          THEN HsReturn(v, Response(400, Text(<<"field 'file' required">>)), None)
          ELSE LET name == IF file.name = <<>> THEN <<"model">> ELSE file.name
                   ext == extOf(name)
               IN  IF ext \notin HS_ALLOWED_EXT
                   THEN HsReturn(v, Response(400,
                                 Text(<<"unsupported extension: ">> \o ext)), None)
                   ELSE hs' = [ pc |-> "write", variant |-> v,
                                alloc |-> [ base |-> base,
                                            inPath |-> HsDir(v) \o <<Seg(base, ext)>>,
                                            outPath |-> HsDir(v) \o <<Seg(base, GcodeExt)>> ] ]
    /\ UNCHANGED <<svcVars, fname, fext, summary, quote, acme, sl>>

\* await Bun.write(inPath, ...): utils.ts and part_001 test the result and
\* return from their own catch; part_004 and part_005 ignore the result and
\* share one try, catch and finally with the engine call
HandleSliceWrite ==
    /\ hs.pc = "write"
    /\ \E w \in WriteResults :
          LET v == hs.variant
              inPath == hs.alloc.inPath
              outPath == hs.alloc.outPath
              f2 == IF w = "written" THEN WriteFile(fs, inPath, Bytes(UploadOf[1])) ELSE fs
              failed == \/ w = "throws"
                        \/ v \notin HsFinally /\ w = "nothing"
                        \/ v = "part_001" /\ ~exists(f2, inPath)
          IN  IF failed
              THEN /\ HsReturn(v, Response(500,
                          Text(<<IF v \in HsFinally THEN "error: " ELSE "error writing: ",
                                 IF w = "throws" THEN "EIO" ELSE "failed to write">>)),
                          hs.alloc)
                   /\ fs' = HsAtReturn(v, f2, inPath, outPath)
              ELSE /\ hs' = [hs EXCEPT !.pc = "slice"]
                   /\ fs' = f2
    /\ UNCHANGED <<pc, req, job, proc, est, resp, hist, get, gresp, fname, fext,
                   summary, quote, acme, sl>>

\* await sliceWithPrusaSlicer(...), the result, and the `finally` of the
\* variants that have one.  The engine exits with code 0 only when it found
\* its input.
HandleSliceRun ==
    /\ hs.pc = "slice"
    /\ \E o \in EngineOutcomes(1) :
          LET v == hs.variant
              inPath == hs.alloc.inPath
              outPath == hs.alloc.outPath
              f2 == IF o.out = None THEN fs ELSE WriteFile(fs, outPath, o.out)
              r == SliceOutcome(o.code, o.stderr, o.stdout)
              gcode == readFile(f2, outPath)
          IN  /\ o.code = 0 => exists(fs, inPath)
              /\ IF Throws(r)
                 THEN HsReturn(v, Response(500, Text(<<"error: ">> \o r.throw)), hs.alloc)
                 ELSE IF v = "part_004"
                 THEN IF Throws(gcode)
                      THEN HsReturn(v, Response(500, Text(<<"error: ", gcode.throw>>)),
                                    hs.alloc)
                      ELSE HsReturn(v, Response(200, gcode.value), hs.alloc)
                 ELSE HsReturn(v, Response(200, Json(hs.alloc)), hs.alloc)
              /\ fs' = HsAtReturn(v, f2, inPath, outPath)
    /\ UNCHANGED <<pc, req, job, proc, est, resp, hist, get, gresp, fname, fext,
                   summary, quote, acme, sl>>

\* ------------------------------------------------------------ specification
Init ==
    /\ fs = InitFs
    /\ pc = [j \in Jobs |-> "idle"]
    /\ req = [j \in Jobs |-> None]
    /\ job = [j \in Jobs |-> NoJob]
    /\ proc = [j \in Jobs |-> None]
    /\ est = [j \in Jobs |-> None]
    /\ resp = [j \in Jobs |-> None]
    /\ hist = [j \in Jobs |-> <<>>]
    /\ get = GetIdle
    /\ gresp = None
    /\ fname = <<>>
    /\ fext = None
    /\ summary = Null
    /\ quote = None
    /\ hs = HsIdle
    /\ acme = AcmeIdle
    /\ sl = SlIdle

\* the steps of the POST /slice handler
NextPost ==
    \/ \E j \in Jobs : Submit(j)
    \/ \E j \in Jobs : WriteInput(j)
    \/ \E j \in Jobs : SpawnEngine(j)
    \/ \E j \in Jobs : EngineExit(j)
    \/ \E j \in Jobs : Estimate(j)
    \/ \E j \in Jobs : PersistOpen(j)
    \/ \E j \in Jobs : Persist(j)

\* the steps of the GET / handler
NextGet ==
    \/ GetById
    \/ GetByPath
    \/ GetStat
    \/ GetRealpath
    \/ GetRead

Next == NextPost \/ NextGet

\* the whole service: submissions and retrievals interleaved
Spec == Init /\ [][Next]_vars

\* the submissions alone; a retrieval changes none of their state
SpecPost == Init /\ [][NextPost]_vars

\* the files an earlier submission may have left in the scratch root: its
\* G-code, its metadata record, both or none
LeftBehind ==
    { InitFs,
      Append(RealTmp, Seg("job-1", GcodeExt)) :> File(Bytes(GcodeOf[1])) @@ InitFs,
      Append(RealTmp, Seg(UuidOf[1], JsonExt)) :> File(Json([uploadId |-> UuidOf[1]]))
          @@ InitFs,
      Append(RealTmp, Seg("job-1", GcodeExt)) :> File(Bytes(GcodeOf[1]))
          @@ Append(RealTmp, Seg(UuidOf[1], JsonExt)) :> File(Json([uploadId |-> UuidOf[1]]))
          @@ InitFs }

InitGet ==
    /\ fs \in LeftBehind
    /\ pc = [j \in Jobs |-> "idle"]
    /\ req = [j \in Jobs |-> None]
    /\ job = [j \in Jobs |-> NoJob]
    /\ proc = [j \in Jobs |-> None]
    /\ est = [j \in Jobs |-> None]
    /\ resp = [j \in Jobs |-> None]
    /\ hist = [j \in Jobs |-> <<>>]
    /\ get = GetIdle
    /\ gresp = None
    /\ fname = <<>>
    /\ fext = None
    /\ summary = Null
    /\ quote = None
    /\ hs = HsIdle
    /\ acme = AcmeIdle
    /\ sl = SlIdle

\* the retrievals alone, over the files found in the scratch root
SpecGet == InitGet /\ [][NextGet]_vars

\* the retrievals while another process changes the scratch root
NextRace == NextGet \/ Replace

SpecRace == InitGet /\ [][NextRace]_vars

\* ------------------------------------------------- extOf on bounded names
Symbols == {Dot, "a", "B", "STL"}

ModelSTL == <<"Model", Dot, "STL">>
NoExt == <<"noext">>

ExtNames == SeqsUpTo(Symbols, MaxLen) \cup {ModelSTL, NoExt}

InitExt ==
    /\ fs = InitFs
    /\ pc = [j \in Jobs |-> "idle"]
    /\ req = [j \in Jobs |-> None]
    /\ job = [j \in Jobs |-> NoJob]
    /\ proc = [j \in Jobs |-> None]
    /\ est = [j \in Jobs |-> None]
    /\ resp = [j \in Jobs |-> None]
    /\ hist = [j \in Jobs |-> <<>>]
    /\ get = GetIdle
    /\ gresp = None
    /\ fname \in ExtNames
    /\ fext = None
    /\ summary = Null
    /\ quote = None
    /\ hs = HsIdle
    /\ acme = AcmeIdle
    /\ sl = SlIdle

ApplyExtOf ==
    /\ fext = None
    /\ fext' = Return(extOf(fname))
    /\ UNCHANGED <<svcVars, fname, summary, quote, hs, acme, sl>>

NextExt == ApplyExtOf

SpecExt == InitExt /\ [][NextExt]_vars

\* -------------------------------------------- the estimate on bounded analyses
Amounts(example) == (0..MaxAmount) \cup {example}

\* what analyzeModel may return: nothing, or an analysis whose totalFilament
\* and layerCnt are each a number or missing
Summaries ==
    {Null} \cup
    { [totalFilament |-> f, layerCnt |-> l] :
          f \in {Null} \cup {Num(n) : n \in Amounts(100)},
          l \in {Null} \cup {Num(n) : n \in Amounts(50)} }

InitEst ==
    /\ fs = InitFs
    /\ pc = [j \in Jobs |-> "idle"]
    /\ req = [j \in Jobs |-> None]
    /\ job = [j \in Jobs |-> NoJob]
    /\ proc = [j \in Jobs |-> None]
    /\ est = [j \in Jobs |-> None]
    /\ resp = [j \in Jobs |-> None]
    /\ hist = [j \in Jobs |-> <<>>]
    /\ get = GetIdle
    /\ gresp = None
    /\ fname = <<>>
    /\ fext = None
    /\ summary \in Summaries
    /\ quote = None
    /\ hs = HsIdle
    /\ acme = AcmeIdle
    /\ sl = SlIdle

ApplyPriceAndTime ==
    /\ quote = None
    /\ quote' = Return(PriceAndTime(summary))
    /\ UNCHANGED <<svcVars, fname, fext, summary, hs, acme, sl>>

NextEst == ApplyPriceAndTime

SpecEst == InitEst /\ [][NextEst]_vars

\* --------------------------------------------- sliceWithPrusaSlicer by itself
InitPipe ==
    /\ fs = InitFs
    /\ pc = [j \in Jobs |-> "idle"]
    /\ req = [j \in Jobs |-> None]
    /\ job = [j \in Jobs |-> NoJob]
    /\ proc = [j \in Jobs |-> None]
    /\ est = [j \in Jobs |-> None]
    /\ resp = [j \in Jobs |-> None]
    /\ hist = [j \in Jobs |-> <<>>]
    /\ get = GetIdle
    /\ gresp = None
    /\ fname = <<>>
    /\ fext = None
    /\ summary = Null
    /\ quote = None
    /\ hs = HsIdle
    /\ acme = AcmeIdle
    /\ sl = SlIdle

NextPipe ==
    \/ SliceSpawn
    \/ EngineWrites
    \/ Drain
    \/ EngineDone
    \/ SliceSettle
    \/ SliceReadAfter

SpecPipe == InitPipe /\ [][NextPipe]_vars

\* ------------------------------------- the path allocation on bounded names
AllocSymbols == {Slash, Dot, "a", "stl", "STL"}

\* "../../etc/passwd.stl" and "x.stl/../etc"
Traversals ==
    { <<Dot, Dot, Slash, Dot, Dot, Slash, "etc", Slash, "passwd", Dot, "stl">>,
      <<"x", Dot, "stl", Slash, Dot, Dot, Slash, "etc">> }

AllocNames == SeqsUpTo(AllocSymbols, MaxLen) \cup Traversals

InitAlloc ==
    /\ fs = InitFs
    /\ pc = [j \in Jobs |-> "idle"]
    /\ req = [j \in Jobs |-> None]
    /\ job = [j \in Jobs |-> NoJob]
    /\ proc = [j \in Jobs |-> None]
    /\ est = [j \in Jobs |-> None]
    /\ resp = [j \in Jobs |-> None]
    /\ hist = [j \in Jobs |-> <<>>]
    /\ get = GetIdle
    /\ gresp = None
    /\ fname \in AllocNames
    /\ fext = None
    /\ summary = Null
    /\ quote = None
    /\ hs = HsIdle
    /\ acme = AcmeIdle
    /\ sl = SlIdle

NextAlloc == SubmitNamed(1)

SpecAlloc == InitAlloc /\ [][NextAlloc]_vars

\* ------------------------------------------------ maybeServeAcme by itself
InitAcme ==
    /\ fs = AcmeFs @@ InitFs
    /\ pc = [j \in Jobs |-> "idle"]
    /\ req = [j \in Jobs |-> None]
    /\ job = [j \in Jobs |-> NoJob]
    /\ proc = [j \in Jobs |-> None]
    /\ est = [j \in Jobs |-> None]
    /\ resp = [j \in Jobs |-> None]
    /\ hist = [j \in Jobs |-> <<>>]
    /\ get = GetIdle
    /\ gresp = None
    /\ fname = <<>>
    /\ fext = None
    /\ summary = Null
    /\ quote = None
    /\ hs = HsIdle
    /\ acme = AcmeIdle
    /\ sl = SlIdle

NextAcme == MaybeServeAcme

SpecAcme == InitAcme /\ [][NextAcme]_vars

\* ------------------------------------------------ handleSlice(form) by itself
InitHs ==
    /\ fs = (WorkDir :> Dir) @@ InitFs
    /\ pc = [j \in Jobs |-> "idle"]
    /\ req = [j \in Jobs |-> None]
    /\ job = [j \in Jobs |-> NoJob]
    /\ proc = [j \in Jobs |-> None]
    /\ est = [j \in Jobs |-> None]
    /\ resp = [j \in Jobs |-> None]
    /\ hist = [j \in Jobs |-> <<>>]
    /\ get = GetIdle
    /\ gresp = None
    /\ fname = <<>>
    /\ fext = None
    /\ summary = Null
    /\ quote = None
    /\ hs = HsIdle
    /\ acme = AcmeIdle
    /\ sl = SlIdle

NextHs == HandleSliceStart \/ HandleSliceWrite \/ HandleSliceRun

SpecHs == InitHs /\ [][NextHs]_vars

\* ================================================================== claims
HasEvent(j, e) == \E k \in 1..Len(hist[j]) : hist[j][k] = e
\* the first position of e, and: the first a stands before the first b
Pos(j, e) ==
    CHOOSE k \in 1..Len(hist[j]) :
        hist[j][k] = e /\ \A i \in 1..(k - 1) : hist[j][i] # e
Before(j, a, b) ==
    LET h == hist[j]
    IN  /\ \E y \in 1..Len(h) : h[y] = b
        /\ \E x \in 1..Len(h) : h[x] = a /\ \A i \in 1..x : h[i] # b
Count(j, e) == Cardinality({k \in 1..Len(hist[j]) : hist[j][k] = e})

\* the canonical path p lies in the canonical scratch root
InsideRoot(p) ==
    /\ Len(p) > Len(RealTmp)
    /\ SubSeq(p, 1, Len(RealTmp)) = RealTmp

\* the path a finished GET request named
RequestedPath ==
    IF get.variant = "id" THEN IdCandidate(get.input, RealTmp)
    ELSE PathCandidate(get.input, RealTmp)

\* the request named an existing file whose canonical path is outside the root
TargetsOutside ==
    /\ ~Falsy(get.input)
    /\ LET r == realpath(fs, RequestedPath)
       IN  ~IsErr(r) /\ ~InsideRoot(r.path)

GetDone == get.pc = "done" /\ gresp # None

\* A 200 response of GET / carries the bytes of a file inside the scratch root.
ServesOnlyInsideRoot ==
    (GetDone /\ gresp.status = 200) =>
        /\ InsideRoot(gresp.from)
        /\ gresp.body # Secret

\* C1: no GET request gets a 200 response with the bytes of a file whose
\* canonical path is outside the canonical scratch root, and every request
\* that names such a file ends in the not-found response.
C1_OutsideIsNeverServedAndNotFound ==
    GetDone =>
        /\ (gresp.status = 200 => InsideRoot(gresp.from) /\ gresp.body # Secret)
        /\ (TargetsOutside => gresp = NotFound)

\* C2: every retrieval failure, whatever its cause, is the one generic
\* not-found response: same status, same body.
C2_FailuresAreUniform ==
    (GetDone /\ gresp.status # 200) => gresp = NotFound

NameOf(r) == IF r.file.name = <<>> THEN <<"model">> ELSE r.file.name

HasDot(name) == \E k \in 1..Len(name) : name[k] = Dot

\* the request carries a file whose extension is allowed and whose size is
\* within the limit
RequestValid(r) ==
    /\ r # None
    /\ r.multipart
    /\ r.file # None
    /\ r.file.size <= MAX_SIZE
    /\ HasDot(NameOf(r))
    /\ extOf(NameOf(r)) \in ALLOWED_EXT

Rejected(j) == hist[j] = <<"rejected">>

\* C3: a submission rejected by validation has created no file and spawned no
\* engine when the rejection is returned, and paths are allocated (hence the
\* input written and the engine called) only for requests that passed every
\* validation check.
C3_RejectionHasNoSideEffects ==
    /\ [](\A j \in Jobs : job[j] # NoJob => RequestValid(req[j]))
    /\ [](\A j \in Jobs : Rejected(j) => job[j] = NoJob /\ proc[j] = None)
    /\ [][\A j \in Jobs :
            (pc[j] = "idle" /\ pc'[j] = "done") =>
                (fs' = fs /\ proc' = proc /\ job' = job)]_vars

C3_Witness ==
    \E j \in Jobs :
        /\ Rejected(j)
        /\ req[j].file # None
        /\ req[j].file.size > MAX_SIZE
        /\ resp[j].status = 413

\* C4: a submission with a file passes validation exactly when its extension
\* is in the allow-list and its size is within the maximum; a name without
\* "." is rejected; the extension rejection (400, "unsupported extension")
\* differs from the size rejection (413).
C4_ValidationIffAllowedAndSmall ==
    \A j \in Jobs :
        (req[j] # None /\ req[j].multipart /\ req[j].file # None) =>
            LET name == NameOf(req[j])
                size == req[j].file.size
                allowed == HasDot(name) /\ extOf(name) \in ALLOWED_EXT
            IN  /\ HasEvent(j, "validated") <=> (allowed /\ size <= MAX_SIZE)
                /\ ~HasDot(name) => Rejected(j)
                /\ size > MAX_SIZE => resp[j].status = 413
                /\ (size <= MAX_SIZE /\ ~allowed) =>
                       /\ resp[j].status = 400
                       /\ resp[j].body.text[1] = "unsupported extension: "

C4_Witness ==
    \E j, k \in Jobs :
        /\ HasEvent(j, "validated")
        /\ req[j].file.name = ModelSTL
        /\ req[j].file.size = MAX_SIZE
        /\ Rejected(k)
        /\ req[k].file # None
        /\ req[k].file.name = NoExt
        /\ resp[k].status = 400

\* C5: extOf(name) is the lowercased suffix of name from its last "." on, and
\* the empty string when name holds no "."; extOf("Model.STL") = ".stl" and
\* extOf("noext") = "".
C5_ExtOfIsLowercasedLastSuffix ==
    fext # None =>
        LET r == fext.value
            n == fname
        IN  /\ ~HasDot(n) => r = <<>>
            /\ HasDot(n) =>
                  \E k \in 1..Len(n) :
                      /\ n[k] = Dot
                      /\ \A m \in (k + 1)..Len(n) : n[m] # Dot
                      /\ Len(r) = Len(n) - k + 1
                      /\ \A m \in 1..Len(r) : r[m] = Lower(n[k + m - 1])
            /\ n = ModelSTL => r = <<Dot, "stl">>
            /\ n = NoExt => r = <<>>

C5_Witness ==
    /\ fext # None
    /\ fname = <<"a", Dot, "B", Dot, "STL">> \/ fname = <<Dot, "B", Dot>> \/ fname = ModelSTL
    /\ fext.value # <<>>

Last(h) == h[Len(h)]

Running(j) == proc[j] # None /\ proc[j].state = "running"
Exited(j) == proc[j] # None /\ proc[j].state = "exited"

\* C6: within one submission the steps happen in the order validate, allocate,
\* write input, run engine, estimate, persist: each step is taken at most
\* once and only after its predecessor has finished; the engine starts after
\* the input write, the estimate starts after the engine exited with code 0,
\* the metadata is written after the estimate returned, and nothing is started
\* while the engine is running.
C6_StepsInOrder ==
    \A j \in Jobs :
        /\ \A k \in 1..Len(Pipeline) : Count(j, Pipeline[k]) <= 1
        /\ \A k \in 2..Len(Pipeline) :
               HasEvent(j, Pipeline[k]) => Before(j, Pipeline[k - 1], Pipeline[k])
        /\ HasEvent(j, "engineStarted") =>
               /\ Before(j, "inputWritten", "engineStarted")
               /\ proc[j] # None
        /\ HasEvent(j, "estimateStarted") =>
               /\ Before(j, "engineExited", "estimateStarted")
               /\ Exited(j)
               /\ proc[j].code = 0
        /\ HasEvent(j, "metaWritten") => Before(j, "estimateReturned", "metaWritten")
        /\ Running(j) => Last(hist[j]) = "engineStarted"

C6_Witness ==
    \E j \in Jobs :
        /\ hist[j] = Pipeline
        /\ resp[j] # None
        /\ resp[j].status = 200

SlicingErrorBody(j) ==
    Text(<<"slicing error: ", "PrusaSlicer failed (code ", ToString(proc[j].code),
           "): ", proc[j].stderr>>)

\* C7 as stated: exit code 0 lets the job reach Sliced; a non-zero exit code
\* fails the job with a 5xx response whose diagnostic text equals the engine's
\* stderr.
C7_DiagnosticEqualsStderr ==
    \A j \in Jobs :
        Exited(j) =>
            /\ proc[j].code = 0 => ~HasEvent(j, "sliceFailed")
            /\ proc[j].code # 0 =>
                   /\ HasEvent(j, "sliceFailed")
                   /\ resp[j].status \in 500..599
                   /\ resp[j].body = Text(<<proc[j].stderr>>)

\* C7 as amended: exit code 0 lets the job reach Sliced; a non-zero exit code
\* fails the job with status 500 and the body "slicing error: PrusaSlicer
\* failed (code <code>): " followed by the engine's stderr verbatim.
C7_DiagnosticEndsWithStderr ==
    \A j \in Jobs :
        Exited(j) =>
            /\ proc[j].code = 0 =>
                   /\ ~HasEvent(j, "sliceFailed")
                   /\ pc[j] = "estimate" \/ HasEvent(j, "estimateStarted")
            /\ proc[j].code # 0 =>
                   /\ HasEvent(j, "sliceFailed")
                   /\ pc[j] = "done"
                   /\ resp[j].status = 500
                   /\ resp[j].body = SlicingErrorBody(j)
                   /\ Last(resp[j].body.text) = proc[j].stderr

C7_Witness ==
    \E j \in Jobs :
        /\ Exited(j)
        /\ proc[j].code = 1
        /\ proc[j].stderr = "boom"
        /\ resp[j] # None
        /\ resp[j].status = 500

ZeroEstimate ==
    [ priceEstimate |-> [intValue |-> 0, currency |-> "EUR"],
      timeEstimate |-> 0,
      quickAnalysis |-> Null ]

\* C8: estimation never fails a request: once the estimate step of a sliced
\* job has run there is an estimate, a null summary with price and time 0
\* when the G-code file cannot be read, and no estimation failure has become
\* an error response.
C8_EstimationNeverFailsRequest ==
    \A j \in Jobs :
        HasEvent(j, "estimateStarted") =>
            /\ ~HasEvent(j, "estimateFailed")
            /\ est[j] # None
            /\ ~exists(fs, job[j].outPath) => est[j] = ZeroEstimate

RecordOf(j) == stat(fs, job[j].uploadMetaPath)

\* C9: every submission that reached the engine ends with exactly one metadata
\* record for its jobId, written exactly once, whether slicing succeeded or
\* failed.
C9_OneRecordPerEngineRun ==
    \A j \in Jobs :
        (pc[j] = "done" /\ HasEvent(j, "engineStarted")) =>
            /\ Count(j, "metaWritten") = 1
            /\ ~IsErr(RecordOf(j))
            /\ RecordOf(j).k = "file"
            /\ RecordOf(j).data = Json(Meta(j))

\* C10: after a submission returned 200 with its uploadId, a retrieval with
\* that id returns the G-code the engine wrote to the job's outputPath,
\* non-empty and byte for byte.
C10_RetrievalReturnsGcode ==
    \A j \in Jobs :
        ( /\ GetDone
          /\ get.variant = "id"
          /\ j \in get.after
          /\ get.input = Param(FALSE, << <<job[j].uploadId>> >>) ) =>
            /\ gresp.status = 200
            /\ gresp.body = proc[j].out
            /\ gresp.body # Bytes("")

Allocated(j) == job[j] # NoJob

ScratchPaths(j) == {job[j].inPath, job[j].outPath}

\* C11: any two distinct submissions, concurrent or not, were allocated
\* different paths: neither the inputPath nor the outputPath of one is the
\* inputPath or the outputPath of the other.
C11_PathsNeverShared ==
    \A j, k \in Jobs :
        (j # k /\ Allocated(j) /\ Allocated(k)) =>
            ScratchPaths(j) \cap ScratchPaths(k) = {}

\* Every step of the handler that awaits file I/O of the server itself is
\* resumed by the event loop; nothing makes the engine process exit, and no
\* client is obliged to submit.
HandlerFairness ==
    \A j \in Jobs :
        /\ WF_vars(WriteInput(j))
        /\ WF_vars(SpawnEngine(j))
        /\ WF_vars(Estimate(j))
        /\ WF_vars(PersistOpen(j))
        /\ WF_vars(Persist(j))

\* submissions alone, with the event loop resuming every handler
SpecLive == Init /\ [][NextPost]_vars /\ HandlerFairness

\* C12: no submission waits on the engine for ever: every engine invocation
\* is bounded by a timeout, so a submission whose engine is running always
\* comes to its end (the engine exited, or it was killed and the submission
\* failed with the reason "timeout").
C12_EngineWaitIsBounded ==
    \A j \in Jobs : (pc[j] = "running") ~> (pc[j] = "done")

\* C13: the engine is spawned at most once per submission, and an engine that
\* has exited, with a non-zero code in particular, is never run again: the
\* submission that failed stays failed.
C13_EngineSpawnedAtMostOnce ==
    /\ [](\A j \in Jobs : Count(j, "engineStarted") <= 1)
    /\ [][\A j \in Jobs :
            Exited(j) =>
                /\ proc'[j] = proc[j]
                /\ (proc[j].code # 0 => pc'[j] = "done" /\ resp'[j] = resp[j])]_vars

C13_Witness ==
    \E j \in Jobs :
        /\ Exited(j)
        /\ proc[j].code # 0
        /\ HasEvent(j, "sliceFailed")
        /\ Count(j, "engineStarted") = 1
        /\ pc[j] = "done"

\* C14: when persisting the uploaded input fails in any way (the write
\* throws, the write reports failure, or the file is absent after writing)
\* the response is a server error (5xx) and the engine is never invoked.
C14_InputWriteFailureIsServerError ==
    \A j \in Jobs :
        HasEvent(j, "inputWriteFailed") =>
            /\ resp[j] # None
            /\ resp[j].status \in 500..599
            /\ proc[j] = None
            /\ ~HasEvent(j, "engineStarted")

\* C15: when the write of the metadata record fails (it throws or reports
\* failure) the response is a server error (5xx) that is not the
\* slicing-error response, and the engine, which ran once, is not run again.
C15_MetaWriteFailureIsServerError ==
    \A j \in Jobs :
        HasEvent(j, "metaWriteFailed") =>
            /\ resp[j] # None
            /\ resp[j].status \in 500..599
            /\ resp[j].body.text[1] # "slicing error: "
            /\ Count(j, "engineStarted") = 1
            /\ Exited(j)

\* C16: with a summary, price = basePrice + pricePerFilamentUnit *
\* filamentLength and time = baseTime + timePerLayer * layerCount (in
\* hundredths: 100 + 1 * filament and 100 + 1 * layers, so filament 100 and
\* 50 layers give 200 and 150, that is 2.00 and 1.50); with a null summary
\* price and time are both present and exactly 0.
C16_EstimateIsBasePlusVariable ==
    quote # None =>
        LET q == quote.value
        IN  /\ {"priceEstimate", "timeEstimate"} \subseteq DOMAIN q
            /\ summary = Null =>
                   /\ q.priceEstimate.intValue = 0
                   /\ q.timeEstimate = 0
                   /\ q.quickAnalysis = Null
            /\ (summary # Null /\ summary.totalFilament # Null) =>
                   q.priceEstimate.intValue =
                       BASE_PRICE + PRICE_PER_FILAMENT_UNIT * summary.totalFilament.num
            /\ (summary # Null /\ summary.layerCnt # Null) =>
                   q.timeEstimate = BASE_TIME + TIME_PER_LAYER * summary.layerCnt.num
            /\ summary = [totalFilament |-> Num(100), layerCnt |-> Num(50)] =>
                   /\ q.priceEstimate.intValue = 200
                   /\ q.timeEstimate = 150

C16_Witness ==
    /\ quote # None
    /\ summary = [totalFilament |-> Num(100), layerCnt |-> Num(50)]
    /\ quote.value.priceEstimate.intValue = 200
    /\ quote.value.timeEstimate = 150

\* the metadata record of job j is on disk
RecordWritten(j) ==
    /\ ~IsErr(RecordOf(j))
    /\ RecordOf(j).k = "file"
    /\ RecordOf(j).data = Json(Meta(j))

\* C17: a submission is synchronous end to end: it has one response, given
\* when its handler returns and never replaced; the success response that
\* carries the jobId is sent only after the engine exited, the estimate was
\* computed and the metadata record was written; and no response reports a
\* pending or in-progress job.
C17_SubmissionIsSynchronous ==
    /\ [](\A j \in Jobs : resp[j] # None <=> pc[j] = "done")
    /\ [][\A j \in Jobs : resp[j] # None => resp'[j] = resp[j]]_vars
    /\ [](\A j \in Jobs :
            (resp[j] # None /\ resp[j].status = 200) =>
                /\ hist[j] = Pipeline
                /\ Exited(j)
                /\ proc[j].code = 0
                /\ est[j] # None
                /\ RecordWritten(j)
                /\ resp[j].body = Json(ClientResponse(j))
                /\ DOMAIN resp[j].body.json =
                       {"uploadId", "previewUrl", "priceEstimate", "timeEstimate"})
    /\ [](\A j \in Jobs :
            resp[j] # None =>
                /\ resp[j].status \in {200, 400, 413, 415, 500}
                /\ resp[j].status # 200 => "text" \in DOMAIN resp[j].body)

C17_Witness ==
    \E j \in Jobs :
        /\ resp[j] # None
        /\ resp[j].status = 200
        /\ resp[j].body.json.uploadId = job[j].uploadId
        /\ RecordWritten(j)
        /\ Exited(j)

\* the pipeline of job j has completed
Completed(j) == pc[j] = "done" /\ hist[j] = Pipeline

JobPaths(j) == {job[j].inPath, job[j].outPath, job[j].uploadMetaPath}

\* C18: once a job's pipeline has completed no operation, a later or
\* concurrent submission or any retrieval, writes, renames or deletes that
\* job's inputPath, outputPath or metadata record; and a retrieval request
\* changes no file at all.
C18_CompletedJobFilesAreFrozen ==
    /\ [][\A j \in Jobs :
            Completed(j) => \A p \in JobPaths(j) : stat(fs', p) = stat(fs, p)]_vars
    /\ [][(get' # get \/ gresp' # gresp) => fs' = fs]_vars

\* the last GET request was answered with the bytes of a file
Served == GetDone /\ gresp.status = 200

\* C19: retrieval is byte-exact and idempotent: the 200 response carries
\* exactly the bytes written to the file it read, and a retrieval repeated
\* with the same identifier returns the same bytes as the one before it (no
\* file is ever removed in this model).
C19_RetrievalIsExactAndIdempotent ==
    /\ [][(get.pc = "read" /\ get'.pc = "done" /\ gresp'.status = 200) =>
              /\ InsideRoot(gresp'.from)
              /\ gresp'.body = fs[gresp'.from].data]_vars
    /\ [](Served => (get.prev # None => gresp.body = get.prev))

HsReturned == hs.pc = "returned" /\ hs.alloc # None

\* C20: in every handleSlice documented "Cleans up temp files regardless of
\* success", when it returns after allocating its paths (success, slicing
\* failure or input-write failure) neither the input file nor the output
\* G-code is left in the work directory.
C20_NoTempFileLeftAtReturn ==
    (HsReturned /\ hs.variant \in HsDocumented) =>
        /\ ~exists(fs, hs.alloc.inPath)
        /\ ~exists(fs, hs.alloc.outPath)

\* the GET handler holds the canonical scratch root
RootIsCanonical ==
    /\ realpath(fs, TmpDir) = Ok(get.baseTmp)
    /\ realpath(fs, get.baseTmp) = Ok(get.baseTmp)

\* C21: the containment check of the GET handler is made on the canonical
\* (symlink-free) paths of the scratch root and of the target; the target is
\* canonicalised before the check; and no byte of the target is read before
\* the check has passed: the read step is entered only from the step that
\* canonicalises and checks, holds a canonical path inside the canonical
\* root, and a 200 response comes from the read step alone.
C21_ContainmentOnCanonicalPathsBeforeRead ==
    /\ [](get.pc \in {"stat", "realpath", "read"} => RootIsCanonical)
    /\ [](get.pc = "read" =>
            /\ realpath(fs, get.real) = Ok(get.real)
            /\ realpath(fs, get.candidate) = Ok(get.real)
            /\ Contained(get.baseTmp, get.candidate, get.real)
            /\ InsideRoot(get.real))
    /\ [][(get.pc # "read" /\ get'.pc = "read") => get.pc = "realpath"]_vars
    /\ [][(get.pc # "done" /\ get'.pc = "done" /\ gresp'.status = 200) =>
              get.pc = "read"]_vars

C21_Witness ==
    /\ GetDone
    /\ gresp.status = 200
    /\ get.variant = "id"
    /\ get.input = Param(FALSE, << <<"old">> >>)
    /\ InsideRoot(gresp.from)

\* the handler has confirmed that the canonical target lies in the root
ContainmentConfirmed ==
    /\ "real" \in DOMAIN get
    /\ Contained(get.baseTmp, get.candidate, get.real)

\* C22: the GET handler stats the target only after the containment check
\* has passed: no step that stats (or otherwise probes) the requested path is
\* taken while the path is not yet confirmed to lie inside the scratch root.
C22_StatOnlyAfterContainment ==
    [][(get.pc = "stat" /\ get'.pc # "stat") => ContainmentConfirmed]_vars

\* the last GET request asked for the record of job j by its uploadId
AskedForRecord(j) ==
    /\ GetDone
    /\ get.variant = "id"
    /\ get.input = Param(FALSE, << <<UuidOf[j]>> >>)

NonNegativeOrMissing(x) == x = Null \/ x.num >= 0

\* C24: for every summary whose filament length and layer count are
\* non-negative or missing, the price and the time returned are non-negative;
\* in a non-null summary a missing totalFilament adds nothing, so the price is
\* the base price, and a missing layerCnt adds nothing, so the time is the
\* base time.
C24_EstimatesAreNonNegative ==
    ( /\ quote # None
      /\ summary # Null =>
             /\ NonNegativeOrMissing(summary.totalFilament)
             /\ NonNegativeOrMissing(summary.layerCnt) ) =>
        LET q == quote.value
        IN  /\ q.priceEstimate.intValue >= 0
            /\ q.timeEstimate >= 0
            /\ (summary # Null /\ summary.totalFilament = Null) =>
                   q.priceEstimate.intValue = BASE_PRICE
            /\ (summary # Null /\ summary.layerCnt = Null) =>
                   q.timeEstimate = BASE_TIME

C24_Witness ==
    /\ quote # None
    /\ summary = [totalFilament |-> Null, layerCnt |-> Null]
    /\ quote.value.priceEstimate.intValue = BASE_PRICE
    /\ quote.value.timeEstimate = BASE_TIME

\* C25: maybeServeAcme leaves every path outside /.well-known/acme-challenge/
\* to the app routes (null) without reading anything; on an ACME path it
\* answers 400 without reading when the last path segment is empty or contains
\* "..", and otherwise opens exactly ACME_DIR/<token>, a direct child of
\* ACME_DIR, answering 200 with that file's text or 404 when it cannot be read.
C25_AcmeReadsOnlyTheTokenFile ==
    acme.pc = "done" =>
        LET p == acme.pathname
            token == p[Len(p)]
            onAcmePath == /\ Len(p) >= 3
                          /\ SubSeq(p, 1, 2) = <<WellKnown, AcmeChallenge>>
            hasDotDot == \E i \in 1..(Len(token) - 1) :
                             token[i] = Dot /\ token[i + 1] = Dot
        IN  /\ ~onAcmePath => acme.result = Null /\ acme.read = None
            /\ (onAcmePath /\ (token = <<>> \/ hasDotDot))
                   => acme.result # Null /\ acme.result.status = 400 /\ acme.read = None
            /\ (onAcmePath /\ token # <<>> /\ ~hasDotDot)
                   => /\ acme.read = Ok(Append(ACME_DIR, token))
                      /\ realpath(fs, SubSeq(acme.read.path, 1, Len(acme.read.path) - 1))
                             = Ok(ACME_DIR)
                      /\ acme.result # Null
                      /\ IF exists(fs, acme.read.path)
                         THEN acme.result =
                                  Response(200, Text(fs[acme.read.path].data.bytes))
                         ELSE acme.result.status = 404

C25_Witness ==
    /\ acme.pc = "done"
    /\ acme.pathname = <<WellKnown, AcmeChallenge, <<"nope">>, <<"tok">> >>
    /\ acme.read = Ok(Append(ACME_DIR, <<"tok">>))
    /\ acme.result = Response(200, Text("KEYAUTH"))

\* the post-write check of job j looks at the record that was just written
ProbeGuardsRecord(j) == PostWriteProbe(j) = job[j].uploadMetaPath

\* C26: whenever a submission is answered 200 with an uploadId, the metadata
\* record of exactly that uploadId has been written and exists in the scratch
\* root at that moment, and the existence check made after the write is a
\* check of that record.
C26_SuccessMeansRecordChecked ==
    \A j \in Jobs :
        (resp[j] # None /\ resp[j].status = 200)
            => /\ RecordWritten(j)
               /\ InsideRoot(realpath(fs, job[j].uploadMetaPath).path)
               /\ ProbeGuardsRecord(j)

\* job k's engine exits in this step
EngineExits(k) == pc[k] = "running" /\ pc'[k] # "running"

\* job k's metadata write starts or ends in this step
RecordWrite(k) == pc[k] \in {"persist", "persisting"} /\ pc'[k] # pc[k]

\* the files this step creates or changes
Written == {p \in DOMAIN fs' : p \notin DOMAIN fs \/ fs'[p] # fs[p]}

\* C27: the inputPath, the outputPath and the metadata path of an accepted
\* submission are three different paths (no allowed extension is ".gcode" or
\* ".json"), so the engine's write of the output creates or changes no file
\* that has the name of an input file, and the write of a metadata record none
\* that has the name of an input or output file.
C27_JobPathsArePairwiseDistinct ==
    /\ [](\A j \in Jobs : Allocated(j) =>
              /\ Cardinality(JobPaths(j)) = 3
              /\ job[j].ext \notin {GcodeExt, JsonExt})
    /\ [][(\E k \in Jobs : EngineExits(k)) =>
              \A p \in Written : \A j \in Jobs :
                  Allocated(j) => Last(p) # Last(job[j].inPath)]_vars
    /\ [][(\E k \in Jobs : RecordWrite(k)) =>
              \A p \in Written : \A j \in Jobs :
                  Allocated(j) => /\ Last(p) # Last(job[j].inPath)
                                  /\ Last(p) # Last(job[j].outPath)]_vars

C27_Witness ==
    \E j \in Jobs :
        /\ Completed(j)
        /\ resp[j].status = 200
        /\ Cardinality(JobPaths(j)) = 3
        /\ stat(fs, job[j].inPath) = File(Bytes(UploadOf[j]))
        /\ stat(fs, job[j].outPath) = File(Bytes(GcodeOf[j]))
        /\ RecordWritten(j)

\* p names a file directly in the scratch root, by a name without "/" or ".."
DirectChild(p) ==
    /\ Len(p) = Len(TmpDir) + 1
    /\ SubSeq(p, 1, Len(TmpDir)) = TmpDir
    /\ \A i \in 1..Len(p[Len(p)]) : p[Len(p)][i] # Slash
    /\ ~includes(p[Len(p)], DotDot)

\* C28: the file name the client supplies does not steer any path: of the name
\* only its extension, one of the allow-list, enters inputPath; inputPath,
\* outputPath and the metadata path are made of the server's base name and
\* uploadId, are direct children of the scratch root and hold no "/" or "..".
C28_ClientNameNeverSteersPaths ==
    \A j \in Jobs :
        Allocated(j) =>
            /\ job[j].name = (IF req[j].file.name = <<>> THEN <<"model">>
                              ELSE req[j].file.name)
            /\ job[j].ext \in ALLOWED_EXT
            /\ job[j].base \in Bases
            /\ job[j].inPath = Append(TmpDir, <<job[j].base>> \o job[j].ext)
            /\ job[j].outPath = Append(TmpDir, <<job[j].base>> \o GcodeExt)
            /\ job[j].uploadMetaPath = Append(TmpDir, <<job[j].uploadId>> \o JsonExt)
            /\ \A p \in JobPaths(j) : DirectChild(p)

C28_Witness ==
    /\ Allocated(1)
    /\ req[1].file.name \in Traversals
    /\ job[1].inPath = Append(TmpDir, <<"job-1", Dot, "stl">>)

\* C29: also when another process replaces the target between the handler's
\* stat, realpath and containment check and its read, a 200 response of GET /
\* carries only the bytes of a file that lies inside the scratch root.
C29_ConfinedUnderFilesystemChanges ==
    (get.pc = "done" /\ gresp # None /\ gresp.status = 200)
        => /\ InsideRoot(gresp.from)
           /\ gresp.body # Secret

\* the engine still has output to write, and every stream it has output for
\* is a full pipe that nothing reads: it never exits
EngineBlocked ==
    /\ sl.pc = "waiting"
    /\ sl.engine = "running"
    /\ \E st \in Streams : sl.left[st] > 0
    /\ \A st \in Streams :
          sl.left[st] > 0 => sl.pipe[st] = PipeCapacity /\ st \notin Reading

====
